---- MODULE Spec2Model ----
(***************************************************************************)
(* Model of the test-suite screen of the Reqline frontend                  *)
(* (src/src/components/MultipleEndpoints.tsx).                             *)
(*                                                                         *)
(* The screen is a React function component.  Every handler is a closure   *)
(* over the currentSuite and testSuites values of the render in which it   *)
(* was created.  A synchronous handler runs against the latest render; an  *)
(* async handler keeps the values of the render in which it was started    *)
(* across its awaits, and so do the helpers it calls afterwards.  The      *)
(* model keeps, for every async invocation in flight, the captured         *)
(* currentSuite (cs) and testSuites (ts).                                  *)
(*                                                                         *)
(* Beside the screen the module models the security utilities              *)
(* (src/unnamed/part_001: rate limiter, createSafeErrorMessage) and the    *)
(* single-request form (src/src/components/ReqlineParser.tsx).             *)
(* Specifications: Spec (suite screen), SpecRl (rate limiter), SpecSafe    *)
(* (createSafeErrorMessage), SpecErr (failed calls on the suite screen),   *)
(* SpecLoad (page loads and suite expiry), SpecForm (single-request form), *)
(* SpecSan (sanitizeInput), SpecWin (the limiter's windows over time),     *)
(* SpecLive (executions under fair settling of calls), SpecRun (running    *)
(* and stopping), SpecReload (page loads while calls are awaited),         *)
(* SpecStore (the suite and its history, with the edits of the suite).     *)
(***************************************************************************)
EXTENDS Integers, Sequences, FiniteSets, TLC

\* ---------------------------------------------------------------- bounds
MaxSteps == 7      \* handler runs, continuations and clock ticks in one behaviour
MaxRlSteps == 3    \* limiter calls, loops of calls and waits in one behaviour
MaxWords == 2      \* words in a failure's text
MaxWinSteps == 3   \* calls, loops, waits and clears of one identifier in one behaviour
MaxLiveSteps == 5  \* attaches and executions by the user in one behaviour

VARIABLES
  currentSuite,    \* useState<TestSuite | null>
  testSuites,      \* useState<TestSuite[]>, the history list
  stCurrent,       \* localStorage["reqline-test-current-suite"]
  stSuites,        \* localStorage["reqline-test-suites"]
  isRunningAll,    \* useState(false)
  tasks,           \* async invocations in flight, with their closures
  requests,        \* RateLimiter.requests: the timestamps recorded per key
  toast,           \* last toast message shown
  netCalls,        \* number of axios.post calls issued so far
  nextSuiteId,     \* generateId(): next fresh suite id
  nextEndpointId,  \* generateId(): next fresh endpoint id
  now,             \* Date.now()
  steps,           \* events so far
  rlLog,           \* history of the checkRateLimit calls, per identifier
  rlSolo,          \* per identifier, a limiter that served only that identifier
  classified,      \* the last failure given to createSafeErrorMessage and the text returned
  newEndpointTestResult,  \* useState: outcome of Test Endpoint on the new-endpoint form
  testCalls,       \* axios.post calls of testNewEndpoint in flight
  form,            \* ReqlineParser: isLoading, result and error of the single-request form
  sanitized        \* the last value given to sanitizeInput and what came back

vars == <<currentSuite, testSuites, stCurrent, stSuites, isRunningAll,
          tasks, requests, toast, netCalls, nextSuiteId, nextEndpointId, now,
          steps, rlLog, rlSolo, classified, sanitized, newEndpointTestResult, testCalls,
          form, sanitized>>

\* the suites of the suite screen and the runs on them
suiteData == <<currentSuite, testSuites, stCurrent, stSuites, isRunningAll,
               tasks, nextSuiteId, nextEndpointId>>
screenVars == <<suiteData, toast>>
\* what no handler of a suite touches
offScreen == <<rlLog, rlSolo, classified, sanitized, testCalls, form>>

\* ------------------------------------------------------------ data model
Null == "null"     \* JS null / undefined for a result
NoTime == 0        \* executedAt undefined

\* --------------------------------------------------------- error messages
\* src/unnamed/part_001 (utils/security): sanitizeInput and
\* createSafeErrorMessage.  A text is a sequence of words; of a word only
\* its lower-case form, the markers it contains and whether it is markup or
\* a control character matter.
Words ==
  {"Invalid", "Password", "TOKEN", "api_key", "monkey", "Secret", "Timeout",
   "Network", "connection", "<b>", "\\x07"}

Tags == {"<b>"}            \* removed by DOMPurify with ALLOWED_TAGS: []
ControlChars == {"\\x07"}  \* matched by /[\x00-\x08\x0B\x0C\x0E-\x1F\x7F]/

RECURSIVE TextsUpTo(_)
TextsUpTo(n) ==
  IF n = 0 THEN {<<>>}
  ELSE TextsUpTo(n - 1)
         \cup {Append(t, w) : t \in {u \in TextsUpTo(n - 1) : Len(u) = n - 1},
                               w \in Words}
Texts == TextsUpTo(MaxWords)

Lower(word) ==
  CASE word = "Invalid" -> "invalid"
    [] word = "Password" -> "password"
    [] word = "TOKEN" -> "token"
    [] word = "Secret" -> "secret"
    [] word = "Timeout" -> "timeout"
    [] word = "Network" -> "network"
    [] word = "Network Error" -> "network error"
    [] word = "Request failed with status code" -> "request failed with status code"
    [] OTHER -> word
toLowerCase(text) == [i \in 1..Len(text) |-> Lower(text[i])]

\* the markers that occur in a lower-case word
MarkersIn(word) ==
  CASE word = "password" -> {"password"}
    [] word = "token" -> {"token"}
    [] word = "api_key" -> {"key", "api_key"}
    [] word = "monkey" -> {"key"}
    [] word = "secret" -> {"secret"}
    [] word = "timeout" -> {"timeout"}
    [] word = "network" -> {"network"}
    [] word = "network error" -> {"network"}
    [] word = "connection" -> {"connection"}
    [] word = "request failed with status code" -> {"request failed with status code"}
    [] OTHER -> {}
includes(text, marker) == \E i \in 1..Len(text) : marker \in MarkersIn(text[i])

\* A value handed to a function that expects a string.
Str(text) == [isString |-> TRUE, text |-> text]
NotAString == [isString |-> FALSE, text |-> <<>>]     \* null, a number, an object

\* Pieces of text that the HTML parser and serializer behind DOMPurify
\* change: "<" is a less-than sign followed by a space (text to the
\* parser), "&" an ampersand followed by a space, the others are character
\* references.
HasLessThan(piece) == piece \in Tags \cup {"<"}
\* the character the parser puts in the text node for a piece
Decode(piece) ==
  CASE piece = "&#7;" -> "\\x07"
    [] piece = "&lt;" -> "<"
    [] piece = "&amp;" -> "&"
    [] OTHER -> piece
\* the serialization of a text node (innerHTML)
Escape(piece) ==
  CASE piece = "<" -> "&lt;"
    [] piece = "&" -> "&amp;"
    [] OTHER -> piece

\* DOMPurify.sanitize(dirty, {ALLOWED_TAGS: [], ALLOWED_ATTR: [],
\* KEEP_CONTENT: true}).  A string without "<" is returned as it is; any
\* other is parsed as HTML, every element is replaced by its content, and
\* the text that is left is serialized.
DOMPurifySanitize(dirty) ==
  IF \A i \in 1..Len(dirty) : ~HasLessThan(dirty[i]) THEN dirty
  ELSE LET kept == SelectSeq(dirty, LAMBDA w : w \notin Tags)
       IN  [i \in 1..Len(kept) |-> Escape(Decode(kept[i]))]

sanitizeInput(input) ==
  IF ~input.isString THEN <<>>
  ELSE LET cleaned == SelectSeq(input.text, LAMBDA w : w \notin ControlChars)
       IN  DOMPurifySanitize(cleaned)

\* What a catch block can receive.  shape "string": a thrown string;
\* "message": an object with a message and no response (axios without an
\* answer); "response": an axios error with a response, whose data carries
\* `text` under the key `field` ("none": no such key) and whose message is
\* AxiosMessage; "object": an object with neither.
Fields == {"message", "error", "detail"}
Statuses == {0, 401, 418}        \* 0: response.status missing
Failure(shape, text, field, status) ==
  [shape |-> shape, text |-> text, field |-> field, status |-> status]
NoFailure == Failure("none", <<>>, "none", 0)
AxiosMessage == <<"Request failed with status code">>

RawFailures ==
  {Failure("string", t, "none", 0) : t \in Texts}
    \cup {Failure("message", t, "none", 0) : t \in Texts}
    \cup {Failure("response", t, f, s) : t \in Texts, f \in Fields, s \in Statuses}
    \cup {Failure("response", <<>>, "none", s) : s \in Statuses}
    \cup {Failure("object", <<>>, "none", 0)}

\* error.message
MessageOf(error) ==
  IF error.shape = "message" THEN error.text
  ELSE IF error.shape = "response" THEN AxiosMessage
  ELSE <<>>

AuthenticationPhrase ==
  <<"An authentication error occurred. Please check your credentials.">>
TimeoutPhrase == <<"Request timed out. Please try again.">>
NetworkPhrase == <<"Network error. Please check your connection and try again.">>
RequestFailedPhrase == <<"Request failed. Please check your input and try again.">>
UnexpectedPhrase == <<"An unexpected error occurred. Please try again.">>

StatusWord(status) == IF status = 418 THEN "418" ELSE "the status"   \* `${response.status}`
StatusPhrase(status) ==
  CASE status = 400 -> <<"Invalid request format. Please check your Reqline syntax.">>
    [] status = 401 -> <<"Authentication required. Please check your credentials.">>
    [] status = 403 -> <<"Access denied. You don't have permission to perform this action.">>
    [] status = 404 -> <<"API endpoint not found. Please check the URL.">>
    [] status = 429 -> <<"Too many requests. Please wait a moment before trying again.">>
    [] status = 500 -> <<"Server error. Please try again later.">>
    [] status = 502 -> <<"Bad gateway. The server is temporarily unavailable.">>
    [] status = 503 -> <<"Service unavailable. Please try again later.">>
    [] status = 504 -> <<"Gateway timeout. The request took too long to process.">>
    [] OTHER -> <<"Request failed with status code", StatusWord(status)>>

\* the branch for objects with a string message (part_001:192-222)
MessageBranchTimeoutFirst(text) ==
  LET message == toLowerCase(text)
  IN  IF includes(message, "timeout") THEN TimeoutPhrase
      ELSE IF \/ includes(message, "password") \/ includes(message, "token")
              \/ includes(message, "key") \/ includes(message, "secret")
              \/ includes(message, "api_key")
        THEN AuthenticationPhrase
      ELSE IF includes(message, "network") \/ includes(message, "connection")
        THEN NetworkPhrase
      ELSE IF includes(message, "request failed with status code")
        THEN RequestFailedPhrase
      ELSE sanitizeInput(Str(text))
MessageBranch(text) ==
  LET message == toLowerCase(text)
  IN  IF \/ includes(message, "password") \/ includes(message, "token")
         \/ includes(message, "key") \/ includes(message, "secret")
         \/ includes(message, "api_key")
        THEN AuthenticationPhrase
      ELSE IF includes(message, "timeout") THEN TimeoutPhrase
      ELSE IF includes(message, "network") \/ includes(message, "connection")
        THEN NetworkPhrase
      ELSE IF includes(message, "request failed with status code")
        THEN RequestFailedPhrase
      ELSE sanitizeInput(Str(text))

createSafeErrorMessage(error) ==
  IF error.shape = "string" THEN sanitizeInput(Str(error.text))
  ELSE IF error.shape = "response" /\ error.field \in Fields /\ error.text # <<>>
    THEN sanitizeInput(Str(error.text))
  ELSE IF error.shape = "response" /\ error.status # 0
    THEN StatusPhrase(error.status)
  ELSE IF error.shape \in {"message", "response"}
    THEN MessageBranch(MessageOf(error))
  ELSE UnexpectedPhrase

\* the error field of an endpoint and of the new-endpoint test result
NoError == [null |-> TRUE, text |-> <<>>]
ErrorText(text) == [null |-> FALSE, text |-> text]

\* how an awaited axios.post ends
Succeeded == [ok |-> TRUE, raw |-> NoFailure]
Failed(raw) == [ok |-> FALSE, raw |-> raw]
NetworkFailure == Failure("message", <<"Network Error">>, "none", 0)

\* A URL as the browser's URL parser sees it.  bad marks text `new URL`
\* rejects.
Url(s, h, p, pa, b) == [scheme |-> s, host |-> h, port |-> p, path |-> pa, bad |-> b]
NoUrlText == Url("", "", "", "", FALSE)

\* Request lines the user can type: only the URL directive matters here.
Reqlines ==
  { [hasUrl |-> FALSE, url |-> NoUrlText],                          \* HTTP GET
    [hasUrl |-> TRUE, url |-> Url("https", "a.com", "", "/x", FALSE)],
    [hasUrl |-> TRUE, url |-> Url("https", "A.COM", "443", "/y", FALSE)],
    [hasUrl |-> TRUE, url |-> Url("http", "b.com", "8080", "/", FALSE)],
    [hasUrl |-> TRUE, url |-> Url("ftp", "a.com", "", "/x", FALSE)],
    [hasUrl |-> TRUE, url |-> Url("https", "a.com", "", "", TRUE)] } \* https://a.com:x

Origin(p, h) == [protocol |-> p, host |-> h]
NullOrigin == Origin("null", <<"", "">>)    \* extractBaseUrl returned null
EmptyOrigin == Origin("", <<"", "">>)     \* baseUrl ""

LowerHost(h) == IF h = "A.COM" THEN "a.com" ELSE IF h = "B.COM" THEN "b.com" ELSE h
DefaultPort(s) == IF s = "https" THEN "443" ELSE IF s = "http" THEN "80" ELSE ""

\* url.host: lower-cased host name, with the port unless it is the
\* scheme's default
UrlHost(u) ==
  IF u.port = "" \/ u.port = DefaultPort(u.scheme)
    THEN <<LowerHost(u.host), "">>
    ELSE <<LowerHost(u.host), u.port>>

extractBaseUrl(reqline) ==
  IF reqline.hasUrl /\ reqline.url.scheme \in {"http", "https"}
    THEN IF reqline.url.bad THEN NullOrigin
         ELSE Origin(reqline.url.scheme, UrlHost(reqline.url))
    ELSE NullOrigin

NoSuite ==
  [id |-> 0, title |-> "", description |-> "", baseUrl |-> EmptyOrigin,
   endpoints |-> <<>>, updatedAt |-> 0, expiresAt |-> 0]

SuiteTtlMs == 4 * 60 * 60 * 1000   \* 4 hours
createNewSuite(id, baseUrl, t) ==
  [id |-> id, title |-> "API Test Suite",
   description |-> "Test suite for multiple API endpoints",
   baseUrl |-> baseUrl, endpoints |-> <<>>, updatedAt |-> t,
   expiresAt |-> t + SuiteTtlMs]

NewEndpoint(id, reqline) ==
  [id |-> id, reqline |-> reqline, result |-> Null,
   error |-> NoError, isLoading |-> FALSE, status |-> "pending",
   executedAt |-> NoTime]

\* -------------------------------------------------------------- helpers
Ids(suite) == {suite.endpoints[i].id : i \in 1..Len(suite.endpoints)}
EndpointOf(suite, id) ==
  LET i == CHOOSE j \in 1..Len(suite.endpoints) : suite.endpoints[j].id = id
  IN suite.endpoints[i]

\* { ...endpoint, ...updates }
Merge(endpoint, updates) ==
  [f \in DOMAIN endpoint |->
     IF f \in DOMAIN updates THEN updates[f] ELSE endpoint[f]]

ReplaceInHistoryNothing(ts, updated) == ts
\* testSuites.map(suite => suite.id === updated.id ? updated : suite)
ReplaceInHistory(ts, updated) ==
  [i \in 1..Len(ts) |-> IF ts[i].id = updated.id THEN updated ELSE ts[i]]

\* setCurrentSuite(s); saveCurrentSuiteToStorage(s);
\* setTestSuites(map); saveSuitesToStorage(map)
WriteSuite(s, ts) ==
  /\ currentSuite' = s
  /\ stCurrent' = s
  /\ testSuites' = ReplaceInHistory(ts, s)
  /\ stSuites' = ReplaceInHistory(ts, s)

\* the suite updateEndpointInSuite builds from the closure's currentSuite
UpdatedSuite(cs, endpointId, updates, t) ==
  [cs EXCEPT !.endpoints =
       [i \in 1..Len(cs.endpoints) |->
          IF cs.endpoints[i].id = endpointId
            THEN Merge(cs.endpoints[i], updates) ELSE cs.endpoints[i]],
     !.updatedAt = t]

\* setToast({message, type}); a and b are the origins a message quotes
Toast(kind) == [kind |-> kind, a |-> EmptyOrigin, b |-> EmptyOrigin]
MismatchToast(a, b) == [kind |-> "mismatch", a |-> a, b |-> b]

\* what the remote call can do, and what the screen stores for it
Outcomes == {Succeeded, Failed(NetworkFailure)}
RunningPatch == [isLoading |-> TRUE, error |-> NoError, status |-> "running"]
OutcomePatch(outcome, t) ==
  IF outcome.ok
    THEN [result |-> "response", isLoading |-> FALSE, executedAt |-> t,
          status |-> "completed"]
    ELSE [error |-> ErrorText(createSafeErrorMessage(outcome.raw)), isLoading |-> FALSE, executedAt |-> t,
          status |-> "failed"]

\* resetSuite of executeAllEndpoints
ResetSuite(cs, t) ==
  [cs EXCEPT !.endpoints =
       [i \in 1..Len(cs.endpoints) |->
          [cs.endpoints[i] EXCEPT !.result = Null, !.error = NoError,
                                  !.isLoading = FALSE, !.status = "pending"]],
     !.updatedAt = t]

\* the loop of executeAllEndpoints walking the endpoints last to first
BatchOrderReversed(suite) ==
  [i \in 1..Len(suite.endpoints) |->
     suite.endpoints[Len(suite.endpoints) + 1 - i].id]

\* for (const endpoint of resetSuite.endpoints): the ids in loop order
BatchOrder(suite) == [i \in 1..Len(suite.endpoints) |-> suite.endpoints[i].id]

StoppedSuiteAllPending(cs, t) ==
  [cs EXCEPT !.endpoints =
       [i \in 1..Len(cs.endpoints) |->
          [cs.endpoints[i] EXCEPT !.isLoading = FALSE, !.status = "pending"]],
     !.updatedAt = t]
\* the suite stopAllExecution builds
StoppedSuite(cs, t) ==
  [cs EXCEPT !.endpoints =
       [i \in 1..Len(cs.endpoints) |->
          [cs.endpoints[i] EXCEPT
             !.isLoading = FALSE,
             !.status = IF cs.endpoints[i].status = "running"
                          THEN "pending" ELSE cs.endpoints[i].status]],
     !.updatedAt = t]

\* validateEndpointForSuite without the comparison with the suite's baseUrl
validateIgnoringOrigin(cs, reqline) ==
  IF cs = NoSuite THEN [valid |-> TRUE, message |-> Toast("none")]
  ELSE IF extractBaseUrl(reqline) = NullOrigin
    THEN [valid |-> FALSE, message |-> Toast("noBaseUrlSyntax")]
  ELSE [valid |-> TRUE, message |-> Toast("none")]

validateEndpointForSuite(cs, reqline) ==
  IF cs = NoSuite THEN [valid |-> TRUE, message |-> Toast("none")]
  ELSE IF extractBaseUrl(reqline) = NullOrigin
    THEN [valid |-> FALSE, message |-> Toast("noBaseUrlSyntax")]
  ELSE IF extractBaseUrl(reqline) # cs.baseUrl
    THEN [valid |-> FALSE,
          message |-> MismatchToast(cs.baseUrl, extractBaseUrl(reqline))]
  ELSE [valid |-> TRUE, message |-> Toast("none")]

\* An async invocation in flight.  cs, ts: the closure's currentSuite and
\* testSuites; order, idx: the loop of executeAllEndpoints (a single
\* execution is a loop of one); pc: "call" while axios.post is awaited,
\* "delay" while the 500 ms timer is awaited.  issued, outcomes, stopped,
\* afterStop, clean record the history of the invocation for the
\* properties below and do not influence it.
NewTask(kind, cs, ts, order, quiet) ==
  [kind |-> kind, cs |-> cs, ts |-> ts, order |-> order, idx |-> 1,
   pc |-> "call", issued |-> <<order[1]>>, outcomes |-> <<>>,
   stopped |-> FALSE, afterStop |-> FALSE, clean |-> quiet]

RemoveAt(s, i) == [j \in 1..(Len(s) - 1) |-> IF j < i THEN s[j] ELSE s[j + 1]]

\* a user action happened while the invocations were in flight
Disturbed(ts) == [i \in 1..Len(ts) |-> [ts[i] EXCEPT !.clean = FALSE]]
Halted(ts) ==
  [i \in 1..Len(ts) |-> [ts[i] EXCEPT !.clean = FALSE, !.stopped = TRUE]]

\* ----------------------------------------------------------- rate limiter
\* src/unnamed/part_001 (utils/security): RateLimiter and checkRateLimit.
\* Date.now() never decreases, so every stored number[] is sorted; it is
\* kept as runs <<time, count>>: count equal timestamps in a row.
MAX_REQUESTS_PER_MINUTE == 60
MAX_REQUESTS_PER_HOUR == 1000
MinuteMs == 60 * 1000
HourMs == 60 * 60 * 1000
NoRetry == 0       \* retryAfter undefined

Identifiers == {"user", "guest"}
Tiers == {"minute", "hour"}

RateKeyShared(identifier, tier) == <<"user", tier>>
RateKey(identifier, tier) == <<identifier, tier>>

RateKeys == Identifiers \X Tiers
NoList == [has |-> FALSE, times |-> <<>>]    \* requests.has(key) is false
RECURSIVE MapOf(_, _)
MapOf(S, v) ==
  IF S = {} THEN <<>>
  ELSE LET k == CHOOSE x \in S : TRUE IN (k :> v) @@ MapOf(S \ {k}, v)
NoRequests == MapOf(RateKeys, NoList)         \* new Map()

RECURSIVE Total(_)
Total(list) == IF list = <<>> THEN 0 ELSE Head(list)[2] + Total(Tail(list))

AfterInclusive(list, windowStart) == SelectSeq(list, LAMBDA r : r[1] >= windowStart)
\* requests.filter((time) => time > windowStart)
After(list, windowStart) == SelectSeq(list, LAMBDA r : r[1] > windowStart)

Push(list, t) ==
  IF list # <<>> /\ list[Len(list)][1] = t
    THEN [list EXCEPT ![Len(list)] = <<t, @[2] + 1>>]
  ELSE Append(list, <<t, 1>>)

isAllowedOffByOne(reqs, key, limit, windowMs, t) ==
  LET windowStart == t - windowMs
      recentRequests == After(reqs[key].times, windowStart)
  IN  IF ~reqs[key].has
        THEN [requests |-> [reqs EXCEPT ![key] = [has |-> TRUE, times |-> <<<<t, 1>>>>]],
              allowed |-> TRUE]
      ELSE IF Total(recentRequests) > limit
        THEN [requests |-> reqs, allowed |-> FALSE]
      ELSE [requests |-> [reqs EXCEPT ![key] =
                            [has |-> TRUE, times |-> Push(recentRequests, t)]],
            allowed |-> TRUE]
\* RateLimiter.isAllowed at time t: the map afterwards and the answer.  A
\* refusal leaves the stored list as it was, unfiltered.
isAllowed(reqs, key, limit, windowMs, t) ==
  LET windowStart == t - windowMs
      recentRequests == After(reqs[key].times, windowStart)
  IN  IF ~reqs[key].has
        THEN [requests |-> [reqs EXCEPT ![key] = [has |-> TRUE, times |-> <<<<t, 1>>>>]],
              allowed |-> TRUE]
      ELSE IF Total(recentRequests) >= limit
        THEN [requests |-> reqs, allowed |-> FALSE]
      ELSE [requests |-> [reqs EXCEPT ![key] =
                            [has |-> TRUE, times |-> Push(recentRequests, t)]],
            allowed |-> TRUE]

checkRateLimitHourFirst(reqs, identifier, t) ==
  LET minute == isAllowed(reqs, RateKey(identifier, "minute"),
                          MAX_REQUESTS_PER_MINUTE, MinuteMs, t)
      hour == isAllowed(minute.requests, RateKey(identifier, "hour"),
                        MAX_REQUESTS_PER_HOUR, HourMs, t)
  IN  [requests |-> hour.requests,
       allowed |-> minute.allowed /\ hour.allowed,
       retryAfter |-> IF ~hour.allowed THEN 3600
                      ELSE IF ~minute.allowed THEN 60
                      ELSE NoRetry]
\* checkRateLimit: both tiers are asked, whatever the first one answered.
checkRateLimit(reqs, identifier, t) ==
  LET minute == isAllowed(reqs, RateKey(identifier, "minute"),
                          MAX_REQUESTS_PER_MINUTE, MinuteMs, t)
      hour == isAllowed(minute.requests, RateKey(identifier, "hour"),
                        MAX_REQUESTS_PER_HOUR, HourMs, t)
  IN  [requests |-> hour.requests,
       allowed |-> minute.allowed /\ hour.allowed,
       retryAfter |-> IF ~minute.allowed THEN 60
                      ELSE IF ~hour.allowed THEN 3600
                      ELSE NoRetry]

\* History of the calls of one identifier, for the properties: one entry
\* per run of n calls in a row with the same time, answer and circumstances.
\* minuteFull, hourFull: the tier held its limit of recorded timestamps in
\* its trailing window when the call was made; minuteStamped, hourStamped:
\* the call left its timestamp in the tier's list; alone: the answer a
\* limiter that only ever served this identifier gave to the same call.
Recorded(reqs, key, windowMs, t) == Total(After(reqs[key].times, t - windowMs))
StampsAt(reqs, key, t) == Total(SelectSeq(reqs[key].times, LAMBDA r : r[1] = t))

LogPush(log, e) ==
  IF log # <<>> /\ [log[Len(log)] EXCEPT !.n = 1] = e
    THEN [log EXCEPT ![Len(log)].n = @ + 1]
  ELSE Append(log, e)

\* One call of checkRateLimit(identifier) at time t on the limiter st.
RlCall(st, identifier, t) ==
  LET r == checkRateLimit(st.requests, identifier, t)
      s == checkRateLimit(st.solo[identifier], identifier, t)
      mk == RateKey(identifier, "minute")
      hk == RateKey(identifier, "hour")
      e == [t |-> t, allowed |-> r.allowed, retryAfter |-> r.retryAfter,
            minuteFull |-> Recorded(st.requests, mk, MinuteMs, t)
                             >= MAX_REQUESTS_PER_MINUTE,
            hourFull |-> Recorded(st.requests, hk, HourMs, t)
                           >= MAX_REQUESTS_PER_HOUR,
            minuteStamped |-> StampsAt(r.requests, mk, t)
                                > StampsAt(st.requests, mk, t),
            hourStamped |-> StampsAt(r.requests, hk, t)
                              > StampsAt(st.requests, hk, t),
            alone |-> [allowed |-> s.allowed, retryAfter |-> s.retryAfter],
            n |-> 1]
  IN  [requests |-> r.requests,
       log |-> [st.log EXCEPT ![identifier] = LogPush(@, e)],
       solo |-> [st.solo EXCEPT ![identifier] = s.requests]]

\* n calls in a row at the same time t (the first half is computed to a
\* value before the second half starts from it)
RECURSIVE RlRepeat(_, _, _, _)
RlRepeat(st, identifier, t, n) ==
  IF n = 0 THEN st
  ELSE IF n = 1 THEN RlCall(st, identifier, t)
  ELSE CHOOSE after \in
         { RlRepeat(half, identifier, t, n - (n \div 2)) :
             half \in {RlRepeat(st, identifier, t, n \div 2)} } : TRUE

\* ------------------------------------------------- the new-endpoint test
NoTestResult ==
  [isLoading |-> FALSE, result |-> Null, error |-> NoError, executedAt |-> NoTime]

\* error.response?.data?.error || error.message || "Unknown error occurred"
TestErrorText(error) ==
  IF error.shape = "response" /\ error.field = "error" /\ error.text # <<>>
    THEN error.text
  ELSE IF MessageOf(error) # <<>> THEN MessageOf(error)
  ELSE <<"Unknown error occurred">>

\* ------------------------------------------------ the single-request form
\* src/src/components/ReqlineParser.tsx.  Of the text in the textarea only
\* its length and whether it is all white space matter to handleSubmit.
MAX_REQLINE_LENGTH == 10000
FormInputs ==
  { [length |-> 0, blank |-> TRUE],
    [length |-> 3, blank |-> TRUE],
    [length |-> 34, blank |-> FALSE],
    [length |-> MAX_REQLINE_LENGTH, blank |-> FALSE],
    [length |-> MAX_REQLINE_LENGTH + 1, blank |-> FALSE] }

FormError(kind, text, seconds) == [kind |-> kind, text |-> text, seconds |-> seconds]
NoFormError == FormError("none", <<>>, 0)
\* `Too many requests. Please wait ${retryAfter} seconds before trying again.`
TooManyRequests(retryAfter) == FormError("rateLimit", <<>>, retryAfter)

validateReqlineLength(reqline) ==
  IF reqline.length = 0
    THEN [isValid |-> FALSE, error |-> <<"Reqline input is required">>]
  ELSE IF reqline.length > MAX_REQLINE_LENGTH
    THEN [isValid |-> FALSE,
          error |-> <<"Reqline too long. Maximum length is 10000 characters">>]
  ELSE IF reqline.blank
    THEN [isValid |-> FALSE, error |-> <<"Reqline cannot be empty">>]
  ELSE [isValid |-> TRUE, error |-> <<>>]

NoForm == [isLoading |-> FALSE, result |-> Null, error |-> NoFormError]

\* --------------------------------------------------------- suite storage
RECURSIVE AllowedIn(_)
AllowedIn(log) ==
  IF log = <<>> THEN 0
  ELSE (IF Head(log).allowed THEN Head(log).n ELSE 0) + AllowedIn(Tail(log))

loadSuitesFromStorageUnfiltered(stored, t) ==
  [suites |-> stored, storage |-> stored]
\* loadSuitesFromStorage at time t: the list returned and what localStorage
\* holds afterwards
loadSuitesFromStorage(stored, t) ==
  LET validSuites == SelectSeq(stored, LAMBDA suite : t <= suite.expiresAt)
  IN  [suites |-> validSuites,
       storage |-> IF Len(validSuites) # Len(stored) THEN validSuites ELSE stored]

\* loadCurrentSuiteFromStorage at time t (NoSuite: null, key removed)
loadCurrentSuiteFromStorage(stored, t) ==
  IF stored = NoSuite THEN [suite |-> NoSuite, storage |-> NoSuite]
  ELSE IF t > stored.expiresAt THEN [suite |-> NoSuite, storage |-> NoSuite]
  ELSE [suite |-> stored, storage |-> stored]

\* ------------------------------------------------- sanitizeInput's inputs
Pieces == {"Hello", "<b>", "\\x07", "&#7;", "<", "&lt;", "&", "&amp;"}
RECURSIVE TextsOver(_, _)
TextsOver(S, n) ==
  IF n = 0 THEN {<<>>}
  ELSE TextsOver(S, n - 1)
         \cup {Append(t, w) : t \in {u \in TextsOver(S, n - 1) : Len(u) = n - 1},
                               w \in S}
SanitizeInputs == {NotAString} \cup {Str(t) : t \in TextsOver(Pieces, MaxWords + 1)}
NotSanitized == [calls |-> 0, input |-> NotAString, once |-> <<>>, twice |-> <<>>]

Init ==
  /\ currentSuite = NoSuite
  /\ testSuites = <<>>
  /\ stCurrent = NoSuite
  /\ stSuites = <<>>
  /\ isRunningAll = FALSE
  /\ tasks = <<>>
  /\ requests = NoRequests
  /\ rlLog = MapOf(Identifiers, <<>>)
  /\ rlSolo = MapOf(Identifiers, NoRequests)
  /\ classified = [raw |-> NoFailure, text |-> <<>>]
  /\ newEndpointTestResult = NoTestResult
  /\ testCalls = 0
  /\ form = NoForm
  /\ sanitized = NotSanitized
  /\ toast = Toast("none")
  /\ netCalls = 0
  /\ nextSuiteId = 1
  /\ nextEndpointId = 1
  /\ now = 1
  /\ steps = 0

\* one more event of the behaviour
Step == steps < MaxSteps /\ steps' = steps + 1

Tick ==
  /\ Step
  /\ UNCHANGED offScreen
  /\ UNCHANGED newEndpointTestResult
  /\ now' = now + 1
  /\ UNCHANGED <<currentSuite, testSuites, stCurrent, stSuites, isRunningAll,
                 tasks, requests, toast, netCalls, nextSuiteId, nextEndpointId>>

\* addEndpointToSuite showing the refusal and appending the endpoint all
\* the same (no return after the toast)
AddRejectedNoReturn(reqline) ==
  /\ Step
  /\ UNCHANGED offScreen
  /\ newEndpointTestResult' = NoTestResult
  /\ ~validateEndpointForSuite(currentSuite, reqline).valid
  /\ toast' = validateEndpointForSuite(currentSuite, reqline).message
  /\ WriteSuite([currentSuite EXCEPT
                   !.endpoints = Append(@, [id |-> nextEndpointId,
                       reqline |-> reqline, result |-> Null, error |-> NoError,
                       isLoading |-> FALSE, status |-> "pending",
                       executedAt |-> NoTime]),
                   !.updatedAt = now],
                testSuites)
  /\ nextEndpointId' = nextEndpointId + 1
  /\ tasks' = Disturbed(tasks)
  /\ UNCHANGED <<isRunningAll, requests, netCalls, nextSuiteId, now>>

\* addEndpointToSuite, refused by validateEndpointForSuite
AddRejected(reqline) ==
  /\ Step
  /\ UNCHANGED offScreen
  /\ newEndpointTestResult' = NoTestResult
  /\ ~validateEndpointForSuite(currentSuite, reqline).valid
  /\ toast' = validateEndpointForSuite(currentSuite, reqline).message
  /\ tasks' = Disturbed(tasks)
  /\ UNCHANGED <<currentSuite, testSuites, stCurrent, stSuites, isRunningAll,
                 requests, netCalls, nextSuiteId, nextEndpointId, now>>

\* addEndpointToSuite with no current suite and no extractable base URL
AddNoBaseUrl(reqline) ==
  /\ Step
  /\ UNCHANGED offScreen
  /\ newEndpointTestResult' = NoTestResult
  /\ currentSuite = NoSuite
  /\ extractBaseUrl(reqline) = NullOrigin
  /\ toast' = Toast("noBaseUrl")
  /\ tasks' = Disturbed(tasks)
  /\ UNCHANGED <<currentSuite, testSuites, stCurrent, stSuites, isRunningAll,
                 requests, netCalls, nextSuiteId, nextEndpointId, now>>

\* addEndpointToSuite with no current suite: the new suite is stored, then
\* `currentSuite!.endpoints` reads the closure's currentSuite, which is
\* still null, and the handler ends with a TypeError before the endpoint
\* is appended.  The id generated for the endpoint is discarded with it.
AddFirst(reqline) ==
  /\ Step
  /\ UNCHANGED offScreen
  /\ UNCHANGED newEndpointTestResult
  /\ currentSuite = NoSuite
  /\ extractBaseUrl(reqline) # NullOrigin
  /\ LET newSuite == createNewSuite(nextSuiteId, extractBaseUrl(reqline), now)
     IN /\ currentSuite' = newSuite
        /\ stCurrent' = newSuite
        /\ testSuites' = Append(testSuites, newSuite)
        /\ stSuites' = Append(testSuites, newSuite)
  /\ nextSuiteId' = nextSuiteId + 1
  /\ tasks' = Disturbed(tasks)
  /\ UNCHANGED <<isRunningAll, requests, toast, netCalls, nextEndpointId, now>>

\* addEndpointToSuite on a current suite of the same origin
AddToCurrent(reqline) ==
  /\ Step
  /\ UNCHANGED offScreen
  /\ newEndpointTestResult' = NoTestResult
  /\ currentSuite # NoSuite
  /\ validateEndpointForSuite(currentSuite, reqline).valid
  /\ WriteSuite([currentSuite EXCEPT
                   !.endpoints = Append(@, NewEndpoint(nextEndpointId, reqline)),
                   !.updatedAt = now],
                testSuites)
  /\ nextEndpointId' = nextEndpointId + 1
  /\ toast' = Toast("added")
  /\ tasks' = Disturbed(tasks)
  /\ UNCHANGED <<isRunningAll, requests, netCalls, nextSuiteId, now>>

addEndpointToSuite(reqline) ==
  \/ AddRejected(reqline)
  \/ AddNoBaseUrl(reqline)
  \/ AddFirst(reqline)
  \/ AddToCurrent(reqline)

removeEndpointFromSuite(endpointId) ==
  /\ Step
  /\ UNCHANGED offScreen
  /\ UNCHANGED newEndpointTestResult
  /\ currentSuite # NoSuite
  /\ endpointId \in Ids(currentSuite)
  /\ LET keep(e) == e.id # endpointId
     IN WriteSuite([currentSuite EXCEPT
                      !.endpoints = SelectSeq(@, keep), !.updatedAt = now],
                   testSuites)
  /\ toast' = Toast("removed")
  /\ tasks' = Disturbed(tasks)
  /\ UNCHANGED <<isRunningAll, requests, netCalls, nextSuiteId,
                 nextEndpointId, now>>

\* the part createNewTestSuite and cancelCurrentSuite share
ClearCurrent(kind) ==
  /\ Step
  /\ UNCHANGED offScreen
  /\ newEndpointTestResult' = NoTestResult
  /\ IF currentSuite # NoSuite /\ Len(currentSuite.endpoints) > 0
       THEN /\ testSuites' = ReplaceInHistory(testSuites, currentSuite)
            /\ stSuites' = ReplaceInHistory(testSuites, currentSuite)
       ELSE UNCHANGED <<testSuites, stSuites>>
  /\ currentSuite' = NoSuite
  /\ stCurrent' = NoSuite
  /\ toast' = Toast(kind)
  /\ tasks' = Disturbed(tasks)
  /\ UNCHANGED <<isRunningAll, requests, netCalls, nextSuiteId,
                 nextEndpointId, now>>

createNewTestSuite == ClearCurrent("newSuite")

cancelCurrentSuite ==
  /\ currentSuite # NoSuite
  /\ ClearCurrent("cancelled")

loadSuiteFromHistory(i) ==
  /\ Step
  /\ UNCHANGED offScreen
  /\ UNCHANGED newEndpointTestResult
  /\ i \in 1..Len(testSuites)
  /\ currentSuite' = testSuites[i]
  /\ stCurrent' = testSuites[i]
  /\ toast' = Toast("loaded")
  /\ tasks' = Disturbed(tasks)
  /\ UNCHANGED <<testSuites, stSuites, isRunningAll, requests, netCalls,
                 nextSuiteId, nextEndpointId, now>>

deleteSuiteFromHistory(i) ==
  /\ Step
  /\ UNCHANGED offScreen
  /\ UNCHANGED newEndpointTestResult
  /\ i \in 1..Len(testSuites)
  /\ LET suiteId == testSuites[i].id
         keep(s) == s.id # suiteId
     IN /\ testSuites' = SelectSeq(testSuites, keep)
        /\ stSuites' = SelectSeq(testSuites, keep)
        /\ IF currentSuite.id = suiteId /\ currentSuite # NoSuite
             THEN currentSuite' = NoSuite /\ stCurrent' = NoSuite
             ELSE UNCHANGED <<currentSuite, stCurrent>>
  /\ toast' = Toast("deleted")
  /\ tasks' = Disturbed(tasks)
  /\ UNCHANGED <<isRunningAll, requests, netCalls, nextSuiteId,
                 nextEndpointId, now>>

\* executeSingleEndpoint up to its await, from the Execute button
executeSingleEndpoint(endpointId) ==
  /\ Step
  /\ UNCHANGED offScreen
  /\ UNCHANGED newEndpointTestResult
  /\ currentSuite # NoSuite
  /\ endpointId \in Ids(currentSuite)
  /\ ~EndpointOf(currentSuite, endpointId).isLoading   \* disabled=
  /\ ~isRunningAll                                     \* disabled=
  /\ WriteSuite(UpdatedSuite(currentSuite, endpointId, RunningPatch, now),
                testSuites)
  /\ netCalls' = netCalls + 1
  /\ tasks' = Append(Disturbed(tasks),
                     NewTask("single", currentSuite, testSuites,
                             <<endpointId>>, tasks = <<>>))
  /\ UNCHANGED <<isRunningAll, requests, toast, nextSuiteId, nextEndpointId, now>>

\* executeAllEndpoints up to its first await.  The reset write and the
\* first executeSingleEndpoint's write happen in the same event handler;
\* the second is built from the closure's currentSuite, not from
\* resetSuite, and replaces the first in all four places.
executeAllEndpoints ==
  /\ Step
  /\ UNCHANGED offScreen
  /\ UNCHANGED newEndpointTestResult
  /\ currentSuite # NoSuite
  /\ Len(currentSuite.endpoints) > 0
  /\ ~isRunningAll                                     \* disabled=
  /\ isRunningAll' = TRUE
  /\ LET order == BatchOrder(ResetSuite(currentSuite, now))
     IN /\ WriteSuite(UpdatedSuite(currentSuite, order[1], RunningPatch, now),
                      testSuites)
        /\ tasks' = Append(Disturbed(tasks),
                           NewTask("batch", currentSuite, testSuites, order,
                                   tasks = <<>>))
  /\ netCalls' = netCalls + 1
  /\ UNCHANGED <<requests, toast, nextSuiteId, nextEndpointId, now>>

stopAllExecution ==
  /\ Step
  /\ UNCHANGED offScreen
  /\ UNCHANGED newEndpointTestResult
  /\ currentSuite # NoSuite
  /\ Len(currentSuite.endpoints) > 0     \* the controls are rendered
  /\ isRunningAll                        \* disabled=
  /\ WriteSuite(StoppedSuite(currentSuite, now), testSuites)
  /\ isRunningAll' = FALSE
  /\ toast' = Toast("stopped")
  /\ tasks' = Halted(tasks)
  /\ UNCHANGED <<requests, netCalls, nextSuiteId, nextEndpointId, now>>

\* what executeSingleEndpoint does after its await, in invocation i
Settled(i, outcome) ==
  /\ UNCHANGED offScreen
  /\ UNCHANGED newEndpointTestResult
  /\ i \in 1..Len(tasks)
  /\ tasks[i].pc = "call"
  /\ LET t == tasks[i]
     IN /\ WriteSuite(UpdatedSuite(t.cs, t.order[t.idx],
                                   OutcomePatch(outcome, now), now), t.ts)
        /\ tasks' = IF t.kind = "single"
                      THEN RemoveAt(tasks, i)
                      ELSE [tasks EXCEPT ![i].pc = "delay",
                                         ![i].outcomes = Append(@, outcome)]
  /\ toast' = Toast(IF outcome.ok THEN "executed" ELSE "executionFailed")
  /\ UNCHANGED <<isRunningAll, requests, netCalls, nextSuiteId,
                 nextEndpointId, now>>

\* the awaited axios.post of invocation i settles
Settle(i, outcome) ==
  /\ Step
  /\ Settled(i, outcome)

\* the 500 ms timer of batch i fires: next iteration, or the end of the loop
DelayNext(i) ==
  /\ Step
  /\ UNCHANGED offScreen
  /\ UNCHANGED newEndpointTestResult
  /\ i \in 1..Len(tasks)
  /\ tasks[i].pc = "delay"
  /\ tasks[i].idx < Len(tasks[i].order)
  /\ LET t == tasks[i]
         endpointId == t.order[t.idx + 1]
     IN /\ WriteSuite(UpdatedSuite(t.cs, endpointId, RunningPatch, now), t.ts)
        /\ tasks' = [tasks EXCEPT ![i].idx = t.idx + 1,
                                  ![i].pc = "call",
                                  ![i].issued = Append(@, endpointId),
                                  ![i].afterStop = t.afterStop \/ t.stopped]
  /\ netCalls' = netCalls + 1
  /\ UNCHANGED <<isRunningAll, requests, toast, nextSuiteId, nextEndpointId, now>>

DelayEnd(i) ==
  /\ Step
  /\ UNCHANGED offScreen
  /\ UNCHANGED newEndpointTestResult
  /\ i \in 1..Len(tasks)
  /\ tasks[i].pc = "delay"
  /\ tasks[i].idx = Len(tasks[i].order)
  /\ isRunningAll' = FALSE
  /\ toast' = Toast("allExecuted")
  /\ tasks' = RemoveAt(tasks, i)
  /\ UNCHANGED <<currentSuite, testSuites, stCurrent, stSuites, requests,
                 netCalls, nextSuiteId, nextEndpointId, now>>

Next ==
  \/ Tick
  \/ \E r \in Reqlines : addEndpointToSuite(r)
  \/ \E id \in Ids(currentSuite) : removeEndpointFromSuite(id)
  \/ createNewTestSuite
  \/ cancelCurrentSuite
  \/ \E i \in 1..Len(testSuites) : loadSuiteFromHistory(i)
  \/ \E i \in 1..Len(testSuites) : deleteSuiteFromHistory(i)
  \/ \E id \in Ids(currentSuite) : executeSingleEndpoint(id)
  \/ executeAllEndpoints
  \/ stopAllExecution
  \/ \E i \in 1..Len(tasks), outcome \in Outcomes : Settle(i, outcome)
  \/ \E i \in 1..Len(tasks) : DelayNext(i)
  \/ \E i \in 1..Len(tasks) : DelayEnd(i)

Spec == Init /\ [][Next]_vars

\* ------------------------------------------------------------ properties
AllSuites ==
  {currentSuite, stCurrent}
    \cup {testSuites[i] : i \in 1..Len(testSuites)}
    \cup {stSuites[i] : i \in 1..Len(stSuites)}

BatchTasks == {i \in 1..Len(tasks) : tasks[i].kind = "batch"}

\* C1: in every reachable state no endpoint of the suite store has both a
\* result and an error message.
C1_ResultXorError ==
  \A s \in AllSuites : \A i \in 1..Len(s.endpoints) :
    ~(s.endpoints[i].result # Null /\ s.endpoints[i].error # NoError)

ExpectedStatus(outcome) == IF outcome.ok THEN "completed" ELSE "failed"

\* C2: when a batch that nothing interfered with has reached the end of its
\* loop, every endpoint's status is the one of its own call's outcome, in
\* endpoint order, and the executedAt values do not decrease by position.
C2_BatchFinalStatuses ==
  \A i \in BatchTasks :
    (tasks[i].clean /\ tasks[i].pc = "delay" /\ tasks[i].idx = Len(tasks[i].order))
    => /\ Len(currentSuite.endpoints) = Len(tasks[i].order)
       /\ \A k \in 1..Len(tasks[i].order) :
            /\ currentSuite.endpoints[k].id = tasks[i].order[k]
            /\ currentSuite.endpoints[k].status = ExpectedStatus(tasks[i].outcomes[k])
       /\ \A k \in 1..(Len(tasks[i].order) - 1) :
            currentSuite.endpoints[k].executedAt <= currentSuite.endpoints[k + 1].executedAt

\* C3: one invocation of executeAllEndpoints issues its calls in the order
\* of the suite's endpoints and one at a time: every call but the one in
\* flight has had its outcome written, and while the delay is awaited no
\* call of the invocation is in flight.
C3_SequentialInOrder ==
  \A i \in BatchTasks :
    /\ Len(tasks[i].issued) <= Len(tasks[i].cs.endpoints)
    /\ \A k \in 1..Len(tasks[i].issued) :
         tasks[i].issued[k] = tasks[i].cs.endpoints[k].id
    /\ Len(tasks[i].issued) =
         Len(tasks[i].outcomes) + (IF tasks[i].pc = "call" THEN 1 ELSE 0)

C3_Witness ==
  \E i \in BatchTasks : Len(tasks[i].issued) = 2 /\ tasks[i].pc = "call"

\* C4: a batch issues no network call after stopAllExecution was invoked
\* while it was in progress.
C4_NoCallAfterStop ==
  \A i \in BatchTasks : ~tasks[i].afterStop

\* C5: every network call of a suite endpoint is preceded by a consultation
\* of the rate limiter, which records the allowed call.
C5_RateLimiterConsulted ==
  [][netCalls' > netCalls => requests' # requests]_vars

\* C6: an endpoint's status becomes completed or failed only in a step out
\* of running.
C6_TerminalOnlyFromRunning ==
  [][\A i \in 1..Len(currentSuite.endpoints) :
       \A j \in 1..Len(currentSuite'.endpoints) :
         ( /\ currentSuite'.id = currentSuite.id
           /\ currentSuite'.endpoints[j].id = currentSuite.endpoints[i].id
           /\ currentSuite'.endpoints[j].status \in {"completed", "failed"}
           /\ currentSuite'.endpoints[j].status # currentSuite.endpoints[i].status )
         => currentSuite.endpoints[i].status = "running"]_vars

\* C7: every endpoint of every suite, current, in the history or persisted,
\* has a request line whose extracted origin is the suite's baseUrl.
C7_SingleOrigin ==
  \A s \in AllSuites : \A i \in 1..Len(s.endpoints) :
    extractBaseUrl(s.endpoints[i].reqline) = s.baseUrl

C7_Witness ==
  /\ Len(currentSuite.endpoints) = 2
  /\ currentSuite.endpoints[1].reqline # currentSuite.endpoints[2].reqline
  /\ \E i \in 1..Len(testSuites) : testSuites[i] = currentSuite

\* C8: attaching an endpoint with a valid URL directive when no suite is
\* current leaves, in that one operation, a current suite with the
\* endpoint's origin that holds exactly the new endpoint, pending.
C8_FirstAttachSucceeds ==
  [][nextSuiteId' # nextSuiteId
       => /\ currentSuite' # NoSuite
          /\ currentSuite'.baseUrl # NullOrigin
          /\ Len(currentSuite'.endpoints) = 1
          /\ currentSuite'.endpoints[1].status = "pending"
          /\ extractBaseUrl(currentSuite'.endpoints[1].reqline) = currentSuite'.baseUrl]_vars

\* C9: a suite whose endpoints have all been removed refuses no attach for
\* its origin: an endpoint of another origin is accepted.
C9_EmptySuiteUnconstrained ==
  [][(currentSuite # NoSuite /\ Len(currentSuite.endpoints) = 0 /\ nextEndpointId > 1)
       => ~(toast' # toast /\ toast'.kind = "mismatch")]_vars

RejectionKinds == {"noBaseUrlSyntax", "noBaseUrl", "mismatch"}

\* C10: a refused attach leaves the current suite, the history list and
\* both persisted copies as they were and creates no suite; a mismatch
\* message carries the suite's origin and the endpoint's origin.
C10_RejectedAttachChangesNothing ==
  [][(toast' # toast /\ toast'.kind \in RejectionKinds)
       => /\ UNCHANGED <<currentSuite, testSuites, stCurrent, stSuites,
                         nextSuiteId, nextEndpointId>>
          /\ toast'.kind = "mismatch"
               => /\ toast'.a = currentSuite.baseUrl
                  /\ toast'.b # toast'.a
                  /\ \E r \in Reqlines : toast'.b = extractBaseUrl(r)
                  /\ toast'.b # NullOrigin]_vars

C10_Witness ==
  /\ toast.kind = "mismatch"
  /\ currentSuite # NoSuite
  /\ Len(currentSuite.endpoints) > 0

\* ------------------------------------------- the rate limiter on its own
\* The limiter as a module-level object that callers drive directly, as
\* src/src/test/security.test.ts does: single calls, the loops of the
\* tests, and time passing between calls.
RlStep == steps < MaxRlSteps /\ steps' = steps + 1

RlApply(identifier, n) ==
  \E st \in {RlRepeat([requests |-> requests, log |-> rlLog, solo |-> rlSolo],
                       identifier, now, n)} :
    /\ requests' = st.requests
    /\ rlLog' = st.log
    /\ rlSolo' = st.solo

CallCheckRateLimit(identifier) ==
  /\ RlStep
  /\ RlApply(identifier, 1)
  /\ UNCHANGED <<screenVars, netCalls, now, classified, sanitized, newEndpointTestResult,
                 testCalls, form>>

LoopSizes == {MAX_REQUESTS_PER_MINUTE, MAX_REQUESTS_PER_HOUR}

CallLoop(identifier, n) ==
  /\ RlStep
  /\ RlApply(identifier, n)
  /\ UNCHANGED <<screenVars, netCalls, now, classified, sanitized, newEndpointTestResult,
                 testCalls, form>>

Waits == {1, MinuteMs, HourMs}

Wait(d) ==
  /\ RlStep
  /\ now' = now + d
  /\ UNCHANGED <<screenVars, netCalls, requests, rlLog, rlSolo, classified, sanitized,
                 newEndpointTestResult, testCalls, form>>

NextRl ==
  \/ \E identifier \in Identifiers : CallCheckRateLimit(identifier)
  \/ \E identifier \in Identifiers, n \in LoopSizes : CallLoop(identifier, n)
  \/ \E d \in Waits : Wait(d)

SpecRl == Init /\ [][NextRl]_vars

\* ---- properties of the rate limiter (specification SpecRl)
RECURSIVE CallsIn(_)
CallsIn(log) == IF log = <<>> THEN 0 ELSE Head(log).n + CallsIn(Tail(log))

\* position, among the identifier's calls, of the first call of entry k
FirstCallOf(log, k) == 1 + CallsIn(SubSeq(log, 1, k - 1))

\* the entry that holds the call at position p
EntryOfCall(log, p) ==
  log[CHOOSE k \in 1..Len(log) :
        FirstCallOf(log, k) <= p /\ p < FirstCallOf(log, k) + log[k].n]

\* calls allowed before entry k and less than 60 s before it
AllowedBefore(log, k) ==
  CallsIn(SelectSeq(SubSeq(log, 1, k - 1),
                    LAMBDA e : e.allowed /\ e.t > log[k].t - 60 * 1000))

Refused(e, seconds) == ~e.allowed /\ e.retryAfter = seconds

\* C11: no call of an identifier is allowed once 60 calls of it were allowed
\* in the 60 s before it, such a call is refused with retryAfter 60, and
\* the first 60 calls of an identifier are allowed with no retryAfter.
C11_MinuteLimit ==
  \A identifier \in Identifiers :
    LET log == rlLog[identifier]
    IN  \A k \in 1..Len(log) :
          /\ log[k].allowed => AllowedBefore(log, k) + log[k].n <= 60
          /\ (~log[k].allowed /\ AllowedBefore(log, k) >= 60)
               => log[k].retryAfter = 60
          /\ FirstCallOf(log, k) <= 60
               => log[k].allowed /\ log[k].retryAfter = NoRetry

\* a 61st call within the minute has been made and refused
C11_Witness ==
  \E identifier \in Identifiers :
    \E k \in 1..Len(rlLog[identifier]) :
      /\ AllowedBefore(rlLog[identifier], k) >= 60
      /\ Refused(rlLog[identifier][k], 60)

\* C12: a call made while the hour tier holds 1000 recorded calls of the
\* last 3600 s is refused with retryAfter 3600 when the minute tier holds
\* fewer than 60 of the last 60 s, and with retryAfter 60 when the minute
\* tier holds 60 as well.
C12_HourLimitMinuteFirst ==
  \A identifier \in Identifiers :
    \A k \in 1..Len(rlLog[identifier]) :
      LET e == rlLog[identifier][k]
      IN  /\ (~e.minuteFull /\ e.hourFull) => Refused(e, 3600)
          /\ (e.minuteFull /\ e.hourFull) => Refused(e, 60)

\* a call met a full hour tier and a minute tier with room
C12_Witness ==
  \E identifier \in Identifiers :
    \E k \in 1..Len(rlLog[identifier]) :
      /\ ~rlLog[identifier][k].minuteFull
      /\ rlLog[identifier][k].hourFull
      /\ Refused(rlLog[identifier][k], 3600)

\* C13: when the first 1001 calls of an identifier are made at one instant,
\* the 1001st is refused with retryAfter 3600.
C13_HourLimitBackToBack ==
  \A identifier \in Identifiers :
    LET log == rlLog[identifier]
    IN  (CallsIn(log) >= 1001 /\ EntryOfCall(log, 1001).t = log[1].t)
          => Refused(EntryOfCall(log, 1001), 3600)

\* C14: a refused call leaves its timestamp in neither tier, an allowed call
\* leaves it in both.
C14_RefusedRecordsNothing ==
  \A identifier \in Identifiers :
    \A k \in 1..Len(rlLog[identifier]) :
      LET e == rlLog[identifier][k]
      IN  /\ ~e.allowed => ~e.minuteStamped /\ ~e.hourStamped
          /\ e.allowed => e.minuteStamped /\ e.hourStamped

\* C15: every call of an identifier got the answer that the same call gets
\* from a limiter which is given that identifier's calls and no others.
C15_IdentifiersIndependent ==
  \A identifier \in Identifiers :
    \A k \in 1..Len(rlLog[identifier]) :
      LET e == rlLog[identifier][k]
      IN  e.alone = [allowed |-> e.allowed, retryAfter |-> e.retryAfter]

\* an identifier was allowed a call after another identifier had been refused
C15_Witness ==
  \E a \in Identifiers : \E b \in Identifiers \ {a} :
    \E j \in 1..Len(rlLog[a]), k \in 1..Len(rlLog[b]) :
      /\ ~rlLog[a][j].allowed
      /\ rlLog[b][k].allowed
      /\ rlLog[a][j].t <= rlLog[b][k].t

\* --------------------------------- createSafeErrorMessage called directly
\* as src/src/test/security.test.ts does: one failure of RawFailures is
\* classified in a behaviour
Classify(error) ==
  /\ classified.raw = NoFailure
  /\ classified' = [raw |-> error, text |-> createSafeErrorMessage(error)]
  /\ UNCHANGED <<screenVars, netCalls, requests, now, steps, rlLog, rlSolo,
                 newEndpointTestResult, testCalls, form, sanitized>>

NextSafe == \E error \in RawFailures : Classify(error)

SpecSafe == Init /\ [][NextSafe]_vars

SensitiveMarkers == {"password", "token", "key", "secret", "api_key"}
Mentions(text, markers) == \E m \in markers : includes(toLowerCase(text), m)

\* C16: for an object with a message and no response, a message with a
\* sensitive marker gives the authentication phrase; otherwise a message
\* with the timeout marker gives the timeout phrase; otherwise a message
\* with a network or connection marker gives the network phrase.
C16_SensitiveThenTimeoutThenNetwork ==
  classified.raw.shape = "message" =>
    LET text == classified.raw.text
    IN  IF Mentions(text, SensitiveMarkers)
          THEN classified.text = AuthenticationPhrase
        ELSE IF Mentions(text, {"timeout"})
          THEN classified.text = TimeoutPhrase
        ELSE Mentions(text, {"network", "connection"})
               => classified.text = NetworkPhrase

\* a message with a sensitive marker and the timeout marker was classified
C16_Witness ==
  /\ classified.raw.shape = "message"
  /\ Mentions(classified.raw.text, SensitiveMarkers)
  /\ Mentions(classified.raw.text, {"timeout"})
  /\ classified.text = AuthenticationPhrase

\* C17: whatever the shape of the failure, no sensitive marker that occurs
\* in the failure's text occurs in the text returned for it.
C17_NoSensitiveMarkerReturned ==
  \A m \in SensitiveMarkers :
    (Mentions(classified.raw.text, {m}) \/ Mentions(MessageOf(classified.raw), {m}))
      => ~Mentions(classified.text, {m})

\* ------------------------------------------ failures on the suite screen
\* Test Endpoint on the new-endpoint form: testNewEndpoint up to its await
testNewEndpoint(hasText) ==
  /\ Step
  /\ IF ~hasText
       THEN /\ toast' = Toast("enterReqline")
            /\ UNCHANGED <<newEndpointTestResult, testCalls, netCalls>>
       ELSE /\ ~newEndpointTestResult.isLoading
            /\ newEndpointTestResult' =
                 [isLoading |-> TRUE, result |-> Null, error |-> NoError,
                  executedAt |-> NoTime]
            /\ testCalls' = testCalls + 1
            /\ netCalls' = netCalls + 1
            /\ UNCHANGED toast
  /\ UNCHANGED <<suiteData, requests, now, rlLog, rlSolo, classified, sanitized, form>>

\* the awaited axios.post of testNewEndpoint settles
TestSettle(outcome) ==
  /\ Step
  /\ testCalls > 0
  /\ testCalls' = testCalls - 1
  /\ newEndpointTestResult' =
       IF outcome.ok
         THEN [isLoading |-> FALSE, result |-> "response.data",
               error |-> NoError, executedAt |-> now]
       ELSE [isLoading |-> FALSE, result |-> Null,
             error |-> ErrorText(TestErrorText(outcome.raw)), executedAt |-> now]
  /\ toast' = Toast(IF outcome.ok THEN "testCompleted" ELSE "testFailed")
  /\ UNCHANGED <<suiteData, requests, netCalls, now, rlLog, rlSolo, classified, sanitized,
                 form>>

\* failures the remote call is made to end with
CaughtFailures ==
  { NetworkFailure,
    Failure("message", <<"Timeout">>, "none", 0),
    Failure("response", <<"Invalid", "TOKEN">>, "error", 401),
    Failure("response", <<"Invalid", "<b>">>, "message", 418),
    Failure("response", <<>>, "none", 401) }
CaughtOutcomes == {Succeeded} \cup {Failed(raw) : raw \in CaughtFailures}

NextErr ==
  \/ \E reqline \in Reqlines : addEndpointToSuite(reqline)
  \/ \E endpointId \in Ids(currentSuite) : executeSingleEndpoint(endpointId)
  \/ \E i \in 1..Len(tasks), outcome \in CaughtOutcomes : Settle(i, outcome)
  \/ \E hasText \in BOOLEAN : testNewEndpoint(hasText)
  \/ \E outcome \in CaughtOutcomes : TestSettle(outcome)

SpecErr == Init /\ [][NextErr]_vars

\* C18: whenever a remote call of the suite screen fails, the error text
\* stored for it (in the endpoint, or in the new-endpoint test result) is
\* the text createSafeErrorMessage returns for the failure caught.
C18_StoredErrorsAreSafe ==
  [][ /\ \A i \in 1..Len(tasks), outcome \in CaughtOutcomes :
           (~outcome.ok /\ Settle(i, outcome))
             => EndpointOf(currentSuite', tasks[i].order[tasks[i].idx]).error
                  = ErrorText(createSafeErrorMessage(outcome.raw))
      /\ \A outcome \in CaughtOutcomes :
           (~outcome.ok /\ TestSettle(outcome))
             => newEndpointTestResult'.error
                  = ErrorText(createSafeErrorMessage(outcome.raw)) ]_vars

\* ------------------------------------------------- reloading the page
\* The page is loaded again: every useState starts from its initial value,
\* the module-level limiter is new, the calls in flight are gone, and the
\* mount effect reads both storage keys.
Reload ==
  /\ Step
  /\ testSuites' = loadSuitesFromStorage(stSuites, now).suites
  /\ stSuites' = loadSuitesFromStorage(stSuites, now).storage
  /\ currentSuite' = loadCurrentSuiteFromStorage(stCurrent, now).suite
  /\ stCurrent' = loadCurrentSuiteFromStorage(stCurrent, now).storage
  /\ isRunningAll' = FALSE
  /\ tasks' = <<>>
  /\ toast' = Toast("none")
  /\ requests' = NoRequests
  /\ newEndpointTestResult' = NoTestResult
  /\ testCalls' = 0
  /\ form' = NoForm
  /\ rlLog' = MapOf(Identifiers, <<>>)
  /\ rlSolo' = MapOf(Identifiers, NoRequests)
  /\ UNCHANGED <<netCalls, nextSuiteId, nextEndpointId, now, classified, sanitized>>

\* the life time of a suite goes by
Expire ==
  /\ Step
  /\ now' = now + SuiteTtlMs
  /\ UNCHANGED <<screenVars, netCalls, requests, offScreen, newEndpointTestResult>>

NextLoad ==
  \/ Tick
  \/ Expire
  \/ Reload
  \/ \E reqline \in Reqlines : addEndpointToSuite(reqline)
  \/ \E endpointId \in Ids(currentSuite) : removeEndpointFromSuite(endpointId)
  \/ createNewTestSuite
  \/ cancelCurrentSuite
  \/ \E i \in 1..Len(testSuites) : loadSuiteFromHistory(i)
  \/ \E i \in 1..Len(testSuites) : deleteSuiteFromHistory(i)

SpecLoad == Init /\ [][NextLoad]_vars

Expired(suite, t) == suite # NoSuite /\ suite.expiresAt < t

\* C19: a load leaves no suite whose expiresAt is in the past: not in the
\* history list, not as current suite, not under either storage key.
C19_ExpiredSuitesSwept ==
  [][ Reload =>
        /\ \A i \in 1..Len(testSuites') : ~Expired(testSuites'[i], now)
        /\ \A i \in 1..Len(stSuites') : ~Expired(stSuites'[i], now)
        /\ ~Expired(currentSuite', now)
        /\ ~Expired(stCurrent', now) ]_vars

\* four events: a suite was created, its life time and one more
\* millisecond went by, and a load dropped it
C19_Witness ==
  /\ nextSuiteId = 2 /\ steps = 4
  /\ now = 2 + SuiteTtlMs
  /\ toast = Toast("none")
  /\ testSuites = <<>> /\ stSuites = <<>>
  /\ currentSuite = NoSuite /\ stCurrent = NoSuite

\* ------------------------------------------- the single-request form
\* One event of the form; the form is its own page, the suite screen is
\* not mounted with it.
FormStep == steps < MaxRlSteps /\ steps' = steps + 1

handleSubmitNoReturn(reqline) ==
  /\ FormStep
  /\ ~form.isLoading
  /\ IF ~validateReqlineLength(reqline).isValid
       THEN /\ form' = [form EXCEPT
                          !.error = FormError("validation",
                                              validateReqlineLength(reqline).error, 0)]
            /\ UNCHANGED <<requests, rlLog, rlSolo, netCalls>>
       ELSE \E st \in {RlCall([requests |-> requests, log |-> rlLog, solo |-> rlSolo],
                              "user", now)} :
              /\ requests' = st.requests
              /\ rlLog' = st.log
              /\ rlSolo' = st.solo
              /\ form' = [isLoading |-> TRUE, result |-> Null, error |-> NoFormError]
              /\ netCalls' = netCalls + 1
  /\ UNCHANGED <<screenVars, now, classified, sanitized, newEndpointTestResult, testCalls>>
\* handleSubmit up to its await
handleSubmit(reqline) ==
  /\ FormStep
  /\ ~form.isLoading
  /\ IF ~validateReqlineLength(reqline).isValid
       THEN /\ form' = [form EXCEPT
                          !.error = FormError("validation",
                                              validateReqlineLength(reqline).error, 0)]
            /\ UNCHANGED <<requests, rlLog, rlSolo, netCalls>>
       ELSE \E st \in {RlCall([requests |-> requests, log |-> rlLog, solo |-> rlSolo],
                              "user", now)} :
              /\ requests' = st.requests
              /\ rlLog' = st.log
              /\ rlSolo' = st.solo
              /\ LET rateLimitCheck == checkRateLimit(requests, "user", now)
                 IN  IF ~rateLimitCheck.allowed
                       THEN /\ form' = [form EXCEPT
                                          !.error = TooManyRequests(rateLimitCheck.retryAfter)]
                            /\ UNCHANGED netCalls
                     ELSE /\ form' = [isLoading |-> TRUE, result |-> Null,
                                      error |-> NoFormError]
                          /\ netCalls' = netCalls + 1
  /\ UNCHANGED <<screenVars, now, classified, sanitized, newEndpointTestResult, testCalls>>

\* the awaited axios.post of handleSubmit settles
FormSettle(outcome) ==
  /\ FormStep
  /\ form.isLoading
  /\ form' = IF outcome.ok
               THEN [form EXCEPT !.result = "response", !.isLoading = FALSE]
             ELSE [form EXCEPT
                     !.error = FormError("safe", createSafeErrorMessage(outcome.raw), 0),
                     !.isLoading = FALSE]
  /\ UNCHANGED <<screenVars, netCalls, requests, now, rlLog, rlSolo, classified, sanitized,
                 newEndpointTestResult, testCalls>>

handleClear ==
  /\ FormStep
  /\ form' = [form EXCEPT !.result = Null, !.error = NoFormError]
  /\ UNCHANGED <<screenVars, netCalls, requests, now, rlLog, rlSolo, classified, sanitized,
                 newEndpointTestResult, testCalls>>

\* n valid requests submitted in a row at one instant, each one answered
\* (the last one with outcome) before the next is submitted
SubmitLoop(n, outcome) ==
  /\ FormStep
  /\ ~form.isLoading
  /\ \E st \in {RlRepeat([requests |-> requests, log |-> rlLog, solo |-> rlSolo],
                         "user", now, n)} :
       /\ requests' = st.requests
       /\ rlLog' = st.log
       /\ rlSolo' = st.solo
       /\ netCalls' = netCalls + AllowedIn(st.log["user"]) - AllowedIn(rlLog["user"])
       /\ LET last == st.log["user"][Len(st.log["user"])]
          IN  form' = IF ~last.allowed
                        THEN [form EXCEPT !.error = TooManyRequests(last.retryAfter)]
                      ELSE IF outcome.ok
                        THEN [isLoading |-> FALSE, result |-> "response",
                              error |-> NoFormError]
                      ELSE [isLoading |-> FALSE, result |-> Null,
                            error |-> FormError("safe",
                                                createSafeErrorMessage(outcome.raw), 0)]
  /\ UNCHANGED <<screenVars, now, classified, sanitized, newEndpointTestResult, testCalls>>

FormWait(d) ==
  /\ FormStep
  /\ now' = now + d
  /\ UNCHANGED <<screenVars, netCalls, requests, rlLog, rlSolo, classified, sanitized,
                 newEndpointTestResult, testCalls, form>>

NextForm ==
  \/ \E reqline \in FormInputs : handleSubmit(reqline)
  \/ \E outcome \in Outcomes : FormSettle(outcome)
  \/ handleClear
  \/ \E outcome \in Outcomes : SubmitLoop(MAX_REQUESTS_PER_MINUTE, outcome)
  \/ \E d \in Waits : FormWait(d)

SpecForm == Init /\ [][NextForm]_vars

\* C20: a submit issues a network call only when the request line is valid
\* and the limiter allows the call; a submit the limiter refuses issues
\* none and shows the error with the limiter's retry-after seconds; a
\* submit that fails validation issues none.
C20_NoCallWhenRejected ==
  [][ \A reqline \in FormInputs :
        handleSubmit(reqline) =>
          LET valid == validateReqlineLength(reqline).isValid
              check == checkRateLimit(requests, "user", now)
          IN  /\ netCalls' # netCalls => valid /\ check.allowed
              /\ (valid /\ ~check.allowed)
                   => /\ netCalls' = netCalls
                      /\ form'.error.kind = "rateLimit"
                      /\ form'.error.seconds = check.retryAfter
                      /\ check.retryAfter \in {60, 3600}
              /\ ~valid => netCalls' = netCalls /\ form'.error.kind = "validation" ]_vars

\* a submit of a valid request line was refused by the limiter
C20_Witness ==
  /\ form.error.kind = "rateLimit"
  /\ form.error.seconds = 60
  /\ \E k \in 1..Len(rlLog["user"]) : Refused(rlLog["user"][k], 60)

\* ------------------------------------------- sanitizeInput called directly
\* as src/src/test/security.test.ts does, and a second time on what the
\* first call returned
Sanitize(input) ==
  /\ sanitized.calls = 0
  /\ sanitized' = [calls |-> 1, input |-> input, once |-> sanitizeInput(input),
                   twice |-> <<>>]
  /\ UNCHANGED <<screenVars, netCalls, requests, now, steps, rlLog, rlSolo,
                 classified, newEndpointTestResult, testCalls, form>>

SanitizeAgain ==
  /\ sanitized.calls = 1
  /\ sanitized' = [sanitized EXCEPT !.calls = 2,
                                    !.twice = sanitizeInput(Str(sanitized.once))]
  /\ UNCHANGED <<screenVars, netCalls, requests, now, steps, rlLog, rlSolo,
                 classified, newEndpointTestResult, testCalls, form>>

NextSan ==
  \/ \E input \in SanitizeInputs : Sanitize(input)
  \/ SanitizeAgain

SpecSan == Init /\ [][NextSan]_vars

\* C21: sanitizeInput applied to what sanitizeInput returned gives the same
\* text again, and a value that is not a string gives the empty string.
C21_SanitizeIdempotent ==
  /\ sanitized.calls = 2 => sanitized.twice = sanitized.once
  /\ (sanitized.calls >= 1 /\ ~sanitized.input.isString) => sanitized.once = <<>>

\* ------------------------------ further properties of the suite screen
\* (specification Spec)

\* C22: an endpoint with status running has neither a result nor an error,
\* in the current suite, in the history and in both persisted copies.
C22_RunningHasNoOutcome ==
  \A s \in AllSuites : \A i \in 1..Len(s.endpoints) :
    s.endpoints[i].status = "running"
      => s.endpoints[i].result = Null /\ s.endpoints[i].error = NoError

\* --------------------------------- the limiter's windows as time goes by
\* One identifier calls checkRateLimit: single calls, the loops of
\* src/src/test/security.test.ts together with the call that follows them,
\* waits around the length of a window, and rateLimiter.clear().
WinStep == steps < MaxWinSteps /\ steps' = steps + 1

WinLoops == {1, MAX_REQUESTS_PER_MINUTE + 1, MAX_REQUESTS_PER_HOUR + 1}
WinWaits == {1, MinuteMs - 1, MinuteMs, HourMs}

WinCalls(n) ==
  /\ WinStep
  /\ RlApply("user", n)
  /\ UNCHANGED <<screenVars, netCalls, now, classified, sanitized,
                 newEndpointTestResult, testCalls, form>>

WinWait(d) ==
  /\ WinStep
  /\ now' = now + d
  /\ UNCHANGED <<screenVars, netCalls, requests, rlLog, rlSolo, classified,
                 sanitized, newEndpointTestResult, testCalls, form>>

\* rateLimiter.clear(); the history of the calls starts again
clear ==
  /\ WinStep
  /\ requests' = NoRequests
  /\ rlLog' = MapOf(Identifiers, <<>>)
  /\ rlSolo' = MapOf(Identifiers, NoRequests)
  /\ UNCHANGED <<screenVars, netCalls, now, classified, sanitized,
                 newEndpointTestResult, testCalls, form>>

NextWin ==
  \/ \E n \in WinLoops : WinCalls(n)
  \/ \E d \in WinWaits : WinWait(d)
  \/ clear

SpecWin == Init /\ [][NextWin]_vars

\* timestamps that calls before entry k left in the minute list and that
\* are less than 60 s old at entry k; the same for the hour list
MinuteStamps(log, k) ==
  CallsIn(SelectSeq(SubSeq(log, 1, k - 1),
                    LAMBDA e : e.minuteStamped /\ e.t > log[k].t - 60 * 1000))
HourStamps(log, k) ==
  CallsIn(SelectSeq(SubSeq(log, 1, k - 1),
                    LAMBDA e : e.hourStamped /\ e.t > log[k].t - 3600 * 1000))

RefusedByMinuteBefore(log, k) == \E j \in 1..(k - 1) : Refused(log[j], 60)

Return(i, outcome) ==
  /\ Settled(i, outcome)
  /\ UNCHANGED steps

Returns == \E i \in 1..Len(tasks), outcome \in Outcomes : Return(i, outcome)

NextLive ==
  \/ /\ steps < MaxLiveSteps
     /\ \E reqline \in Reqlines : addEndpointToSuite(reqline)
  \/ /\ steps < MaxLiveSteps
     /\ \E endpointId \in Ids(currentSuite) : executeSingleEndpoint(endpointId)
  \/ Returns

SpecLive == Init /\ [][NextLive]_vars /\ WF_vars(Returns)

\* a call for the endpoint is awaited
InFlight(id) ==
  \E i \in 1..Len(tasks) : tasks[i].pc = "call" /\ tasks[i].order[tasks[i].idx] = id

\* the endpoint shows the outcome of an execution
HasOutcome(endpoint) ==
  /\ ~endpoint.isLoading
  /\ endpoint.executedAt # NoTime
  /\ \/ endpoint.status = "completed" /\ endpoint.result # Null
     \/ endpoint.status = "failed" /\ endpoint.error # NoError

\* C24: every call in flight settles, the endpoint then shows an outcome
\* (completed with a result or failed with an error, executedAt set), and
\* no endpoint of the current suite is running when no call for it is in
\* flight.
C24_ExecutionEndsWithOutcome ==
  /\ []<>(tasks = <<>>)
  /\ [][\A i \in 1..Len(tasks), outcome \in Outcomes :
          Return(i, outcome)
            => HasOutcome(EndpointOf(currentSuite', tasks[i].order[tasks[i].idx]))]_vars
  /\ [](\A k \in 1..Len(currentSuite.endpoints) :
          currentSuite.endpoints[k].status = "running"
            => InFlight(currentSuite.endpoints[k].id))

\* ------------------------------------------------ running and stopping
\* The user attaches endpoints, executes them one by one or all at once,
\* and stops; the calls settle and the timers fire.
NextRun ==
  \/ \E reqline \in Reqlines : addEndpointToSuite(reqline)
  \/ \E endpointId \in Ids(currentSuite) : executeSingleEndpoint(endpointId)
  \/ executeAllEndpoints
  \/ stopAllExecution
  \/ \E i \in 1..Len(tasks), outcome \in Outcomes : Settle(i, outcome)
  \/ \E i \in 1..Len(tasks) : DelayNext(i)
  \/ \E i \in 1..Len(tasks) : DelayEnd(i)

SpecRun == Init /\ [][NextRun]_vars

\* C25: stopAllExecution leaves the endpoints in their order and number,
\* makes every running endpoint pending, leaves status, result, error and
\* executedAt of every other endpoint as they were, and leaves the batch
\* flag false.
C25_StopChangesOnlyRunning ==
  [][ stopAllExecution =>
        /\ Len(currentSuite'.endpoints) = Len(currentSuite.endpoints)
        /\ \A k \in 1..Len(currentSuite.endpoints) :
             LET before == currentSuite.endpoints[k]
                 after == currentSuite'.endpoints[k]
             IN  /\ after.id = before.id
                 /\ after.reqline = before.reqline
                 /\ before.status = "running" => after.status = "pending"
                 /\ before.status # "running"
                      => /\ after.status = before.status
                         /\ after.result = before.result
                         /\ after.error = before.error
                         /\ after.executedAt = before.executedAt
        /\ ~isRunningAll' ]_vars

\* a batch was stopped while the call of an endpoint was awaited: that
\* endpoint is pending, and another endpoint is still completed
C25_Witness ==
  /\ toast = Toast("stopped")
  /\ ~isRunningAll
  /\ \E i \in BatchTasks :
       /\ tasks[i].stopped /\ tasks[i].pc = "call"
       /\ EndpointOf(currentSuite, tasks[i].order[tasks[i].idx]).status = "pending"
  /\ \E k \in 1..Len(currentSuite.endpoints) :
       /\ currentSuite.endpoints[k].status = "completed"
       /\ currentSuite.endpoints[k].result # Null

\* the current suite after the step holds the endpoints it held before
\* it, in the same order, each one but the endpoint id as it was
OthersKept(id) ==
  /\ Len(currentSuite'.endpoints) = Len(currentSuite.endpoints)
  /\ \A k \in 1..Len(currentSuite.endpoints) :
       /\ currentSuite'.endpoints[k].id = currentSuite.endpoints[k].id
       /\ currentSuite.endpoints[k].id # id
            => currentSuite'.endpoints[k] = currentSuite.endpoints[k]

\* C26: every step that applies updateEndpointInSuite(id, patch), at the
\* click on Execute, when an awaited call settles or when a batch goes on
\* to its next endpoint, leaves every other endpoint of the current suite
\* with the fields it had before the step, in the same order; when no
\* endpoint has the id, the endpoints stay as they were.
C26_UpdateChangesOnlyItsEndpoint ==
  [][ /\ \A id \in Ids(currentSuite) : executeSingleEndpoint(id) => OthersKept(id)
      /\ \A i \in 1..Len(tasks) :
           /\ (\E outcome \in Outcomes : Settle(i, outcome))
                => OthersKept(tasks[i].order[tasks[i].idx])
           /\ DelayNext(i) => OthersKept(tasks[i].order[tasks[i].idx + 1]) ]_vars

\* batches whose loop awaits a call or has endpoints left to call
LoopsIssuing ==
  {i \in BatchTasks : tasks[i].pc = "call" \/ tasks[i].idx < Len(tasks[i].order)}

\* C27: no batch and no single execution is started while the loop of a
\* batch awaits a call or has endpoints left to call.
C27_NoStartWhileBatchLoops ==
  [][ ( \/ executeAllEndpoints
        \/ \E id \in Ids(currentSuite) : executeSingleEndpoint(id) )
        => LoopsIssuing = {} ]_vars

\* the step is an attach or a load from the history
AttachOrLoad ==
  \/ \E reqline \in Reqlines : addEndpointToSuite(reqline)
  \/ \E i \in 1..Len(testSuites) : loadSuiteFromHistory(i)

HistoryIds(suites) == {suites[i].id : i \in 1..Len(suites)}

\* C28: while no suite is current, only an attach or a load from the
\* history makes a suite current, and only an attach adds a suite to the
\* history list: no other step, the settling of a call included, brings
\* back a suite that was cancelled, replaced or deleted.
C28_RemovedSuiteStaysRemoved ==
  [][ /\ (currentSuite = NoSuite /\ currentSuite' # NoSuite) => AttachOrLoad
      /\ ~(HistoryIds(testSuites') \subseteq HistoryIds(testSuites)) => AttachOrLoad ]_vars

\* ------------------------------------- a page load while calls are awaited
\* The user attaches and executes endpoints and loads the page again; the
\* calls of the page that was left are gone with it.
NextReload ==
  \/ \E reqline \in Reqlines : addEndpointToSuite(reqline)
  \/ \E endpointId \in Ids(currentSuite) : executeSingleEndpoint(endpointId)
  \/ \E i \in 1..Len(tasks), outcome \in Outcomes : Settle(i, outcome)
  \/ Reload

SpecReload == Init /\ [][NextReload]_vars

\* C29: an endpoint of the current suite is running, or loading, only while
\* a call for it is in flight, and a page load leaves no endpoint of the
\* current suite running or loading.
C29_RunningOnlyWhileInFlight ==
  /\ [](\A k \in 1..Len(currentSuite.endpoints) :
          (currentSuite.endpoints[k].status = "running" \/ currentSuite.endpoints[k].isLoading)
            => InFlight(currentSuite.endpoints[k].id))
  /\ [][Reload => \A k \in 1..Len(currentSuite'.endpoints) :
                    /\ currentSuite'.endpoints[k].status # "running"
                    /\ ~currentSuite'.endpoints[k].isLoading]_vars

\* -------------------------------------------- the suite and its history
\* Every operation on suites, the edits of the suite's title and
\* description included.
SuiteTitles == {"Smoke tests"}
SuiteDescriptions == {"Runs every night"}

\* onChange of the Test Suite Title input
editSuiteTitle(title) ==
  /\ Step
  /\ UNCHANGED offScreen
  /\ UNCHANGED newEndpointTestResult
  /\ currentSuite # NoSuite
  /\ WriteSuite([currentSuite EXCEPT !.title = title, !.updatedAt = now], testSuites)
  /\ tasks' = Disturbed(tasks)
  /\ UNCHANGED <<isRunningAll, requests, toast, netCalls, nextSuiteId,
                 nextEndpointId, now>>

\* onChange of the Test Suite Description textarea
editSuiteDescription(description) ==
  /\ Step
  /\ UNCHANGED offScreen
  /\ UNCHANGED newEndpointTestResult
  /\ currentSuite # NoSuite
  /\ WriteSuite([currentSuite EXCEPT !.description = description, !.updatedAt = now],
                testSuites)
  /\ tasks' = Disturbed(tasks)
  /\ UNCHANGED <<isRunningAll, requests, toast, netCalls, nextSuiteId,
                 nextEndpointId, now>>

\* request lines of two origins, and one without a URL
StoreReqlines ==
  { [hasUrl |-> FALSE, url |-> NoUrlText],
    [hasUrl |-> TRUE, url |-> Url("https", "a.com", "", "/x", FALSE)],
    [hasUrl |-> TRUE, url |-> Url("http", "b.com", "8080", "/", FALSE)] }

NextStore ==
  \/ Tick
  \/ \E reqline \in StoreReqlines : addEndpointToSuite(reqline)
  \/ \E endpointId \in Ids(currentSuite) : removeEndpointFromSuite(endpointId)
  \/ createNewTestSuite
  \/ cancelCurrentSuite
  \/ \E i \in 1..Len(testSuites) : loadSuiteFromHistory(i)
  \/ \E i \in 1..Len(testSuites) : deleteSuiteFromHistory(i)
  \/ \E endpointId \in Ids(currentSuite) : executeSingleEndpoint(endpointId)
  \/ executeAllEndpoints
  \/ stopAllExecution
  \/ \E i \in 1..Len(tasks), outcome \in Outcomes : Settle(i, outcome)
  \/ \E i \in 1..Len(tasks) : DelayNext(i)
  \/ \E i \in 1..Len(tasks) : DelayEnd(i)
  \/ \E title \in SuiteTitles : editSuiteTitle(title)
  \/ \E description \in SuiteDescriptions : editSuiteDescription(description)
  \/ Reload

SpecStore == Init /\ [][NextStore]_vars

\* the list holds exactly one suite with the id of suite, and it is suite
OnceIn(suite, list) ==
  /\ Cardinality({i \in 1..Len(list) : list[i].id = suite.id}) = 1
  /\ \A i \in 1..Len(list) : list[i].id = suite.id => list[i] = suite

\* C30: whenever a suite is current, the history list holds exactly one
\* entry with its id and that entry equals the current suite, field by
\* field; and so does the persisted history for the persisted current
\* suite.
C30_CurrentSuiteInHistory ==
  /\ currentSuite # NoSuite => OnceIn(currentSuite, testSuites)
  /\ stCurrent # NoSuite => OnceIn(stCurrent, stSuites)

\* the current suite has an edited title and an executed endpoint
C30_Witness ==
  /\ currentSuite # NoSuite
  /\ currentSuite.title \in SuiteTitles
  /\ \E k \in 1..Len(currentSuite.endpoints) :
       currentSuite.endpoints[k].status = "completed"
  /\ OnceIn(currentSuite, testSuites)
  /\ stCurrent = currentSuite

====
